---- MODULE Spec2Model ----
(***************************************************************************)
(* A model of flexy-fit: the FlexyFit visibility gate (src/src/FlexyFit.tsx)*)
(* and the FlexyFitInternal fit engine (FlexyFitInternal.tsx, kept as      *)
(* src/unnamed/part_000).                                                  *)
(*                                                                         *)
(* JavaScript numbers are modelled as exact fractions <<n, d>> with the    *)
(* IEEE special values Infinity = <<1, 0>> and NaN = <<0, 0>>; rounding of *)
(* doubles is not modelled.  null/undefined is the empty tuple.            *)
(***************************************************************************)
EXTENDS Integers, Sequences, FiniteSets, TLC

VARIABLES
    window,          \* the global viewport: defined?, innerWidth, innerHeight, resize listeners
    mounted,         \* whether a FlexyFit instance is mounted
    props,           \* the props of the mounted FlexyFit
    responsiveView,  \* useState of FlexyFit
    breakpointView,  \* useState of FlexyFit
    fit,             \* FlexyFitInternal: ref, props, committed state, queued state updates
    dom,             \* the container element, its parent and its first child
    lastOp           \* the operation that produced the state

vars == <<window, mounted, props, responsiveView, breakpointView, fit, dom, lastOp>>

(***************************************************************************)
(* Bounds of the model.                                                    *)
(***************************************************************************)
MaxDim == 4      \* layout sizes of the fit computation range over 0..MaxDim
MaxLifeDim == 2  \* layout sizes of the lifecycle specification range over 0..MaxLifeDim

Dims == 0..MaxDim
LifeDims == 0..MaxLifeDim

(***************************************************************************)
(* null, and JavaScript numbers.                                           *)
(***************************************************************************)
Null == <<>>

RECURSIVE Gcd(_, _)
Gcd(a, b) == IF b = 0 THEN a ELSE Gcd(b, a % b)

Abs(i) == IF i < 0 THEN -i ELSE i

\* The canonical form of the fraction n/d, d >= 0.
Norm(n, d) ==
    IF d = 0 THEN (IF n = 0 THEN <<0, 0>> ELSE IF n > 0 THEN <<1, 0>> ELSE <<-1, 0>>)
    ELSE LET g == Gcd(Abs(n), d) IN <<n \div g, d \div g>>

Num(i) == <<i, 1>>
NaN == <<0, 0>>
IsNaN(x) == x = NaN
IsFinite(x) == x[2] # 0

Div(x, y) == IF y[1] < 0 THEN Norm(-(x[1] * y[2]), x[2] * (-y[1]))
                         ELSE Norm(x[1] * y[2], x[2] * y[1])
Mul(x, y) == Norm(x[1] * y[1], x[2] * y[2])
\* x > y, x < y and x !== y of JavaScript: every comparison with NaN is false,
\* and NaN !== NaN.
Gt(x, y) == ~IsNaN(x) /\ ~IsNaN(y) /\ x # y /\
            (IF x[2] = 0 /\ y[2] = 0 THEN x[1] > y[1] ELSE x[1] * y[2] > y[1] * x[2])
Lt(x, y) == Gt(y, x)
Le(x, y) == ~IsNaN(x) /\ ~IsNaN(y) /\ ~Gt(x, y)
StrictNeq(x, y) == IsNaN(x) \/ IsNaN(y) \/ x # y

\* a ?? b
Coalesce(a, b) == IF a = Null THEN b ELSE a

(***************************************************************************)
(* The visibility gate: FlexyFit.                                          *)
(***************************************************************************)
Tiers == {"sm", "md", "lg", "xl", "2xl"}

SmMax == 640
MdMax == 768
LgMax == 1024
XlMax == 1280
Xxl == 1536

\* An optional value other than a number: Null or <<v>>.
Some(v) == <<v>>
Val(o) == o[1]

\* The tier tests with the upper bound of md excluded.
TierMatch_MdExclusive(responsive, w) ==
    \/ "sm" \in responsive /\ w <= SmMax
    \/ "md" \in responsive /\ w < MdMax /\ w > SmMax
    \/ "lg" \in responsive /\ w <= LgMax /\ w > MdMax
    \/ "xl" \in responsive /\ w <= XlMax /\ w > LgMax
    \/ "2xl" \in responsive /\ w <= Xxl /\ w > XlMax
    \/ "2xl" \in responsive /\ w > Xxl

\* The tier tests with the lower bound of lg included.
TierMatch_LgFromMdMax(responsive, w) ==
    \/ "sm" \in responsive /\ w <= SmMax
    \/ "md" \in responsive /\ w <= MdMax /\ w > SmMax
    \/ "lg" \in responsive /\ w <= LgMax /\ w >= MdMax
    \/ "xl" \in responsive /\ w <= XlMax /\ w > LgMax
    \/ "2xl" \in responsive /\ w <= Xxl /\ w > XlMax
    \/ "2xl" \in responsive /\ w > Xxl

\* Lines 21-61 of checkResponsive: the chain of tier tests.
TierMatch(responsive, w) ==
    \/ "sm" \in responsive /\ w <= SmMax
    \/ "md" \in responsive /\ w <= MdMax /\ w > SmMax
    \/ "lg" \in responsive /\ w <= LgMax /\ w > MdMax
    \/ "xl" \in responsive /\ w <= XlMax /\ w > LgMax
    \/ "2xl" \in responsive /\ w <= Xxl /\ w > XlMax
    \/ "2xl" \in responsive /\ w > Xxl

\* The two useState values as a record, so that a check maps state to state.
View(rv, bv) == [responsiveView |-> rv, breakpointView |-> bv]

\* checkResponsive without the test of the window.
checkResponsive_NoWindowTest(g, p, win) ==
    IF p.responsive = Null \/ Val(p.responsive) = {}
    THEN [g EXCEPT !.responsiveView = TRUE]
    ELSE [g EXCEPT !.responsiveView = TierMatch(Val(p.responsive), win.innerWidth)]

\* checkResponsive without the test of an empty tier set.
checkResponsive_EmptyIsTierSet(g, p, win) ==
    IF p.responsive = Null
    THEN [g EXCEPT !.responsiveView = TRUE]
    ELSE IF ~win.defined THEN g
    ELSE [g EXCEPT !.responsiveView = TierMatch(Val(p.responsive), win.innerWidth)]

checkResponsive(g, p, win) ==
    IF p.responsive = Null \/ Val(p.responsive) = {}
    THEN [g EXCEPT !.responsiveView = TRUE]
    ELSE IF ~win.defined THEN g
    ELSE [g EXCEPT !.responsiveView = TierMatch(Val(p.responsive), win.innerWidth)]

\* Lines 71-104 of checkBreakpoint: the four bound checks.
RangeViolated(range, v) ==
    /\ range # Null
    /\ \/ Val(range).max # Null /\ Gt(Num(v), Val(range).max)
       \/ Val(range).min # Null /\ Lt(Num(v), Val(range).min)

Condition(breakpoint, win) ==
    /\ ~RangeViolated(breakpoint.width, win.innerWidth)
    /\ ~RangeViolated(breakpoint.height, win.innerHeight)

\* Line 106 stores the result with setResponsiveView.
checkBreakpoint(g, p, win) ==
    IF p.breakpoint = Null
    THEN [g EXCEPT !.breakpointView = TRUE]
    ELSE IF ~win.defined THEN g
    ELSE [g EXCEPT !.responsiveView = Condition(Val(p.breakpoint), win)]

\* The body of the effect: both checks, their state updates batched in order.
GateEffect(g, p, win) == checkBreakpoint(checkResponsive(g, p, win), p, win)

\* Line 119: what FlexyFit renders.
Visible(g) == g.responsiveView /\ g.breakpointView

(***************************************************************************)
(* The fit engine: FlexyFitInternal.                                       *)
(***************************************************************************)
NoPending == [initialWidth |-> Null, initialHeight |-> Null,
              fullParentWidth |-> Null, fullParentHeight |-> Null]

DefaultInternalProps == [width |-> Null, height |-> Null, fitTo |-> Null,
                         overflow |-> FALSE, flex |-> FALSE, px |-> FALSE]

\* Line 29-31: the values a render's closures see.
fitTo(f) == IF f.props.fitTo = Null THEN "width" ELSE Val(f.props.fitTo)
width(f) == Coalesce(f.props.width, f.initialWidth)
height(f) == Coalesce(f.props.height, f.initialHeight)

\* parent.getBoundingClientRect() of a parent without border or scrollbar.
ParentRect(d) == [width |-> Num(d.parentClientWidth), height |-> Num(d.parentClientHeight)]

\* Assigning an invalid value (NaN, Infinity) to a style property leaves it as it was.
CssSet(old, v) == IF IsFinite(v) THEN v ELSE old

\* Lines 33-42.  A setState call queues the value; the closure keeps the old one.
parentResize(f, d) ==
    IF ~f.mounted THEN f
    ELSE [f EXCEPT !.pending.fullParentWidth = ParentRect(d).width,
                   !.pending.fullParentHeight = ParentRect(d).height]

\* CaptureInitial with || in the place of && in the test of line 47.
CaptureInitial_EitherNonzero(f, d) ==
    IF d.clientWidth # 0 \/ d.clientHeight # 0
    THEN [f EXCEPT
            !.pending.initialWidth = IF f.initialWidth = Null THEN Num(d.clientWidth) ELSE @,
            !.pending.initialHeight = IF f.initialHeight = Null THEN Num(d.clientHeight) ELSE @]
    ELSE f

\* Lines 47-50.
CaptureInitial(f, d) ==
    IF d.clientWidth # 0 /\ d.clientHeight # 0
    THEN [f EXCEPT
            !.pending.initialWidth = IF f.initialWidth = Null THEN Num(d.clientWidth) ELSE @,
            !.pending.initialHeight = IF f.initialHeight = Null THEN Num(d.clientHeight) ELSE @]
    ELSE f

\* Lines 52-62.
CaptureParent(f, d) ==
    IF f.fullParentWidth = Null /\ f.fullParentHeight = Null
    THEN [f EXCEPT !.pending.fullParentWidth = ParentRect(d).width,
                   !.pending.fullParentHeight = ParentRect(d).height]
    ELSE f

\* Resolved without the return of line 66.
Resolved_EffectiveOnly(f) == width(f) # Null /\ height(f) # Null

\* Lines 64 and 66: resize() goes on to reveal and fit only past these returns.
Resolved(f) ==
    /\ width(f) # Null /\ height(f) # Null
    /\ f.initialWidth # Null /\ f.initialHeight # Null

\* Lines 67-70.
Reveal(d) ==
    IF d.visibility = "hidden" THEN [d EXCEPT !.visibility = "", !.opacity = ""] ELSE d

\* Fit with the overflow tests made with >= instead of >.
Fit_RedirectOnTouch(axis, overflow, W, H, cw, ch, pw, ph) ==
    IF axis = "width"
    THEN IF ~overflow /\ ~Lt(Mul(H, Div(cw, W)), ph)
         THEN [scale |-> Div(ch, H), sync |-> "height"]
         ELSE [scale |-> Div(cw, W), sync |-> "width"]
    ELSE IF ~overflow /\ ~Lt(Mul(W, Div(ch, H)), pw)
         THEN [scale |-> Div(cw, W), sync |-> "width"]
         ELSE [scale |-> Div(ch, H), sync |-> "height"]

\* Fit without the overflow tests.
Fit_NoRedirect(axis, overflow, W, H, cw, ch, pw, ph) ==
    IF axis = "width"
    THEN [scale |-> Div(cw, W), sync |-> "width"]
    ELSE [scale |-> Div(ch, H), sync |-> "height"]

\* Lines 72-95: the scale factor and the axis handed to keepSyncRatio.
Fit(axis, overflow, W, H, cw, ch, pw, ph) ==
    IF axis = "width"
    THEN LET resizedChildHeight == Mul(H, Div(cw, W)) IN
         IF ~overflow /\ Gt(resizedChildHeight, ph)
         THEN [scale |-> Div(ch, H), sync |-> "height"]
         ELSE [scale |-> Div(cw, W), sync |-> "width"]
    ELSE LET resizedChildWidth == Mul(W, Div(ch, H)) IN
         IF ~overflow /\ Gt(resizedChildWidth, pw)
         THEN [scale |-> Div(cw, W), sync |-> "width"]
         ELSE [scale |-> Div(ch, H), sync |-> "height"]

\* keepSyncRatio setting only the dimension across the driving axis.
keepSyncRatio_CrossAxisOnly(f, d, axis) ==
    IF ~f.mounted THEN d
    ELSE IF width(f) = Null \/ height(f) = Null THEN d
    ELSE LET originRatio == Div(width(f), height(f))
             resizedParentRatio == Div(Num(d.parentClientWidth), Num(d.parentClientHeight))
         IN  IF ~StrictNeq(originRatio, resizedParentRatio) THEN d
             ELSE IF axis = "width"
             THEN LET changedRatio == Div(originRatio, resizedParentRatio) IN
                  [d EXCEPT !.childHeight = CssSet(@, Mul(height(f), changedRatio))]
             ELSE LET changedRatio == Div(resizedParentRatio, originRatio) IN
                  [d EXCEPT !.childWidth = CssSet(@, Mul(width(f), changedRatio))]

\* keepSyncRatio with the two ratios of changedRatio exchanged.
keepSyncRatio_InverseRatio(f, d, axis) ==
    IF ~f.mounted THEN d
    ELSE IF width(f) = Null \/ height(f) = Null THEN d
    ELSE LET originRatio == Div(width(f), height(f))
             resizedParentRatio == Div(Num(d.parentClientWidth), Num(d.parentClientHeight))
         IN  IF ~StrictNeq(originRatio, resizedParentRatio) THEN d
             ELSE IF axis = "width"
             THEN LET changedRatio == Div(resizedParentRatio, originRatio) IN
                  [d EXCEPT !.childWidth = CssSet(@, width(f)),
                            !.childHeight = CssSet(@, Mul(height(f), changedRatio))]
             ELSE LET changedRatio == Div(originRatio, resizedParentRatio) IN
                  [d EXCEPT !.childHeight = CssSet(@, height(f)),
                            !.childWidth = CssSet(@, Mul(width(f), changedRatio))]

\* Lines 103-134.
keepSyncRatio(f, d, axis) ==
    IF ~f.mounted THEN d
    ELSE IF width(f) = Null \/ height(f) = Null THEN d
    ELSE LET originRatio == Div(width(f), height(f))
             resizedParentRatio == Div(Num(d.parentClientWidth), Num(d.parentClientHeight))
         IN  IF ~StrictNeq(originRatio, resizedParentRatio) THEN d
             ELSE IF axis = "width"
             THEN LET changedRatio == Div(originRatio, resizedParentRatio) IN
                  [d EXCEPT !.childWidth = CssSet(@, width(f)),
                            !.childHeight = CssSet(@, Mul(height(f), changedRatio))]
             ELSE LET changedRatio == Div(resizedParentRatio, originRatio) IN
                  [d EXCEPT !.childHeight = CssSet(@, height(f)),
                            !.childWidth = CssSet(@, Mul(width(f), changedRatio))]

\* ApplyFit with the new scale factor applied on top of the one already set.
ApplyFit_Compound(f, d) ==
    LET r == Fit(fitTo(f), f.props.overflow, width(f), height(f),
                 Num(d.clientWidth), Num(d.clientHeight),
                 Num(d.parentClientWidth), Num(d.parentClientHeight))
        d1 == [d EXCEPT !.transform = CssSet(@, Mul(Coalesce(@, Num(1)), r.scale))]
        d2 == IF f.props.flex THEN keepSyncRatio(f, d1, r.sync) ELSE d1
    IN  [d2 EXCEPT !.flexShrink = "0"]

\* Lines 72-100: the transform, the ratio sync and the child's flex-shrink.
ApplyFit(f, d) ==
    LET r == Fit(fitTo(f), f.props.overflow, width(f), height(f),
                 Num(d.clientWidth), Num(d.clientHeight),
                 Num(d.parentClientWidth), Num(d.parentClientHeight))
        d1 == [d EXCEPT !.transform = CssSet(@, r.scale)]
        d2 == IF f.props.flex THEN keepSyncRatio(f, d1, r.sync) ELSE d1
    IN  [d2 EXCEPT !.flexShrink = "0"]

\* resize() without the test of the container reference.
resize_NoRefTest(f, d) ==
    LET f1 == CaptureParent(CaptureInitial(f, d), d) IN
    IF ~Resolved(f) THEN [fit |-> f1, dom |-> d]
    ELSE [fit |-> f1, dom |-> ApplyFit(f, Reveal(d))]

\* Lines 44-101.
resize(f, d) ==
    IF ~f.mounted THEN [fit |-> f, dom |-> d]
    ELSE LET f1 == CaptureParent(CaptureInitial(f, d), d) IN
         IF ~Resolved(f) THEN [fit |-> f1, dom |-> d]
         ELSE [fit |-> f1, dom |-> ApplyFit(f, Reveal(d))]

\* A render of FlexyFitInternal sees the state with every queued update applied.
Commit(f) ==
    [f EXCEPT !.initialWidth = Coalesce(f.pending.initialWidth, @),
              !.initialHeight = Coalesce(f.pending.initialHeight, @),
              !.fullParentWidth = Coalesce(f.pending.fullParentWidth, @),
              !.fullParentHeight = Coalesce(f.pending.fullParentHeight, @),
              !.pending = NoPending]

\* Lines 153-160: the width and height of the rendered style.  A pixel value
\* is kept as a number, "100%" as Num(100) with unit "%"; Null is no entry.
Truthy(x) == x # Null /\ x # Num(0) /\ ~IsNaN(x)

\* StyleSize with the parent's width and height exchanged.
StyleSize_Exchanged(f) ==
    IF f.props.px
    THEN [unit |-> "px",
          width |-> IF f.initialWidth # Null /\ Truthy(f.fullParentHeight)
                    THEN f.fullParentHeight ELSE Null,
          height |-> IF f.initialHeight # Null /\ Truthy(f.fullParentWidth)
                     THEN f.fullParentWidth ELSE Null]
    ELSE IF f.initialHeight # Null
    THEN [unit |-> "%", width |-> Num(100), height |-> Num(100)]
    ELSE [unit |-> "%", width |-> Null, height |-> Null]

StyleSize(f) ==
    IF f.props.px
    THEN [unit |-> "px",
          width |-> IF f.initialWidth # Null /\ Truthy(f.fullParentWidth)
                    THEN f.fullParentWidth ELSE Null,
          height |-> IF f.initialHeight # Null /\ Truthy(f.fullParentHeight)
                     THEN f.fullParentHeight ELSE Null]
    ELSE IF f.initialHeight # Null
    THEN [unit |-> "%", width |-> Num(100), height |-> Num(100)]
    ELSE [unit |-> "%", width |-> Null, height |-> Null]

\* A render that writes its visibility and opacity to the element again.
RenderStyle_Reapply(d) == [d EXCEPT !.visibility = "hidden", !.opacity = "0"]

\* Lines 161-162: every render asks for visibility "hidden" and opacity 0.  The
\* value is the same in each render, so committing a re-render writes neither
\* property and the element keeps what resize() left.
RenderStyle(d) == d

\* No FlexyFitInternal is mounted.
FitUnmounted ==
    [mounted |-> FALSE, props |-> DefaultInternalProps,
     initialWidth |-> Null, initialHeight |-> Null,
     fullParentWidth |-> Null, fullParentHeight |-> Null,
     pending |-> NoPending, effectPending |-> FALSE, parentObserved |-> FALSE]

\* Lines 21-27 and 136-146: the first render; the effect is still to run, and
\* the parent is not observed yet because ref.current was null during the render.
FitMounted(ip) == [FitUnmounted EXCEPT !.mounted = TRUE, !.props = ip, !.effectPending = TRUE]

\* A re-render with new props: the queue is applied, the [props] effect is
\* scheduled, and the parent observer is subscribed.
FitRerender(f, ip) ==
    [Commit(f) EXCEPT !.props = ip, !.effectPending = TRUE, !.parentObserved = TRUE]

\* Lines 148-178: the container as first rendered, with its content's size.
DomMounted(d, cw, ch) ==
    [d EXCEPT !.clientWidth = cw, !.clientHeight = ch,
              !.visibility = "hidden", !.opacity = "0", !.transform = Null,
              !.childWidth = Null, !.childHeight = Null, !.flexShrink = ""]

DomUnmounted(d) ==
    [d EXCEPT !.clientWidth = 0, !.clientHeight = 0,
              !.visibility = "", !.opacity = "", !.transform = Null,
              !.childWidth = Null, !.childHeight = Null, !.flexShrink = ""]

DomInit(pw, ph) ==
    [clientWidth |-> 0, clientHeight |-> 0,
     parentClientWidth |-> pw, parentClientHeight |-> ph,
     visibility |-> "", opacity |-> "", transform |-> Null,
     childWidth |-> Null, childHeight |-> Null, flexShrink |-> ""]

(***************************************************************************)
(* Operations.                                                             *)
(***************************************************************************)
DefaultProps ==
    [responsive |-> Null, breakpoint |-> Null, width |-> Null, height |-> Null,
     fitTo |-> Null, overflow |-> FALSE, flex |-> FALSE, px |-> FALSE]

\* Line 12 and 120: FlexyFitInternal gets the rest of the props, and fitTo="width".
InternalProps(p) ==
    [width |-> p.width, height |-> p.height, fitTo |-> Some("width"),
     overflow |-> p.overflow, flex |-> p.flex, px |-> p.px]

CurrentView == View(responsiveView, breakpointView)

\* Lines 119-125: the commit that follows the gate's state going from g to g1.
\* The fit engine exists exactly while the gate renders it; f and d are the
\* engine and its element as the gate's last render left them, C the sizes the
\* content of a new container may have.
\* GateCommit that keeps the engine of a gate that stops being visible.
GateCommit_KeepHidden(g, g1, p, f, d, C) ==
    /\ responsiveView' = g1.responsiveView
    /\ breakpointView' = g1.breakpointView
    /\ IF Visible(g1) /\ ~f.mounted
       THEN /\ fit' = FitMounted(InternalProps(p))
            /\ \E c \in C : dom' = DomMounted(dom, c[1], c[2])
       ELSE fit' = f /\ dom' = d

GateCommit(g, g1, p, f, d, C) ==
    /\ responsiveView' = g1.responsiveView
    /\ breakpointView' = g1.breakpointView
    /\ IF Visible(g1)
       THEN IF Visible(g)
            THEN fit' = f /\ dom' = d
            ELSE /\ fit' = FitMounted(InternalProps(p))
                 /\ \E c \in C : dom' = DomMounted(dom, c[1], c[2])
       ELSE fit' = FitUnmounted /\ dom' = DomUnmounted(dom)

\* Lines 109-117, first run: FlexyFit mounts, renders nothing, and its effect
\* runs the two checks and registers the listener.
Mount(P, C) ==
    /\ ~mounted
    /\ \E p \in P :
         /\ mounted' = TRUE
         /\ props' = p
         /\ window' = IF window.defined THEN [window EXCEPT !.listeners = @ + 1] ELSE window
         /\ GateCommit(View(FALSE, FALSE), GateEffect(View(FALSE, FALSE), p, window),
                       p, FitUnmounted, dom, C)
    /\ lastOp' = "mount"

\* PropChange with an effect that returns no cleanup: the listener of the
\* render before stays registered.
PropChange_NoCleanup(P, C) ==
    /\ mounted
    /\ \E p \in P :
         /\ props' = p
         /\ window' = IF window.defined THEN [window EXCEPT !.listeners = @ + 1] ELSE window
         /\ GateCommit(CurrentView, GateEffect(CurrentView, p, window), p,
                       FitRerender(fit, InternalProps(p)), RenderStyle(dom), C)
    /\ mounted' = mounted
    /\ lastOp' = "propChange"

\* Lines 109-117, later runs: new props re-render FlexyFit (and the engine it
\* shows), the cleanup removes the listener, the effect runs again.
PropChange(P, C) ==
    /\ mounted
    /\ \E p \in P :
         /\ props' = p
         /\ window' = window
         /\ GateCommit(CurrentView, GateEffect(CurrentView, p, window), p,
                       FitRerender(fit, InternalProps(p)), RenderStyle(dom), C)
    /\ mounted' = mounted
    /\ lastOp' = "propChange"

\* Line 113: a resize event of the viewport calls the registered listener.
ViewportResize(W, H, C) ==
    /\ window.defined
    /\ \E w \in W, h \in H :
         /\ window' = [window EXCEPT !.innerWidth = w, !.innerHeight = h]
         /\ IF mounted /\ window.listeners > 0
            THEN GateCommit(CurrentView, checkResponsive(CurrentView, props, window'),
                            props, fit, dom, C)
            ELSE UNCHANGED <<responsiveView, breakpointView, fit, dom>>
    /\ UNCHANGED <<mounted, props>>
    /\ lastOp' = "viewportResize"

\* Lines 114-116: unmounting FlexyFit runs the cleanup.
Unmount ==
    /\ mounted
    /\ mounted' = FALSE
    /\ props' = DefaultProps
    /\ window' = IF window.defined THEN [window EXCEPT !.listeners = @ - 1] ELSE window
    /\ responsiveView' = FALSE
    /\ breakpointView' = FALSE
    /\ fit' = FitUnmounted
    /\ dom' = DomUnmounted(dom)
    /\ lastOp' = "unmount"

\* Lines 136-138: the [props] effect of FlexyFitInternal.
Effect ==
    /\ fit.mounted /\ fit.effectPending
    /\ LET r == resize(fit, dom) IN
         /\ fit' = [r.fit EXCEPT !.effectPending = FALSE]
         /\ dom' = r.dom
    /\ UNCHANGED <<window, mounted, props, responsiveView, breakpointView>>
    /\ lastOp' = "effect"

\* Lines 140-142: the container's resize observer fires (also once when it
\* starts observing, with the size unchanged).
ContainerResize(D) ==
    /\ fit.mounted
    /\ \E c \in D :
         LET r == resize(fit, [dom EXCEPT !.clientWidth = c[1], !.clientHeight = c[2]]) IN
           /\ fit' = r.fit
           /\ dom' = r.dom
    /\ UNCHANGED <<window, mounted, props, responsiveView, breakpointView>>
    /\ lastOp' = "containerResize"

\* Lines 144-146: the parent's box changes; its observer, subscribed from the
\* second render on, calls parentResize.
ParentResize(D) ==
    /\ fit.mounted
    /\ \E c \in D :
         /\ dom' = [dom EXCEPT !.parentClientWidth = c[1], !.parentClientHeight = c[2]]
         /\ fit' = IF fit.parentObserved THEN parentResize(fit, dom') ELSE fit
    /\ UNCHANGED <<window, mounted, props, responsiveView, breakpointView>>
    /\ lastOp' = "parentResize"

\* A re-render of FlexyFitInternal caused by its queued state updates.  The
\* rendered style keeps visibility "hidden" and opacity 0 in every render, so
\* the style diff leaves the element's own visibility and opacity untouched.
Render ==
    /\ fit.mounted
    /\ fit.pending # NoPending
    /\ fit' = [Commit(fit) EXCEPT !.parentObserved = TRUE]
    /\ dom' = RenderStyle(dom)
    /\ UNCHANGED <<window, mounted, props, responsiveView, breakpointView>>
    /\ lastOp' = "render"

\* Lines 21 and 150: unmounting the container clears ref.current; the closures
\* of the last render keep the state they were created with.
Detach ==
    /\ fit.mounted
    /\ fit' = [fit EXCEPT !.mounted = FALSE]
    /\ UNCHANGED <<window, mounted, props, responsiveView, breakpointView, dom>>
    /\ lastOp' = "detach"

\* Lines 44-45 and 140-142: a callback of the last render calls resize() when
\* the container reference is gone.
StaleResize ==
    /\ ~fit.mounted
    /\ LET r == resize(fit, dom) IN fit' = r.fit /\ dom' = r.dom
    /\ UNCHANGED <<window, mounted, props, responsiveView, breakpointView>>
    /\ lastOp' = "staleResize"

\* Lines 33-34 and 144-146: the same for parentResize().
StaleParentResize ==
    /\ ~fit.mounted
    /\ fit' = parentResize(fit, dom)
    /\ UNCHANGED <<window, mounted, props, responsiveView, breakpointView, dom>>
    /\ lastOp' = "staleParentResize"

\* Lines 103-104: the same for keepSyncRatio(), for either axis.
StaleKeepSyncRatio ==
    /\ ~fit.mounted
    /\ \E axis \in {"width", "height"} : dom' = keepSyncRatio(fit, dom, axis)
    /\ UNCHANGED <<window, mounted, props, responsiveView, breakpointView, fit>>
    /\ lastOp' = "staleKeepSyncRatio"

(***************************************************************************)
(* Spec: FlexyFit with the fit engine it renders, over small layouts.      *)
(***************************************************************************)
LifeWidths == {SmMax, SmMax + 1}
LifeHeights == {SmMax}

\* The props FlexyFit is given: plain, with a tier set, with explicit width
\* and height, and with fitTo = height and overflow allowed.
LifeProps ==
    { DefaultProps,
      [DefaultProps EXCEPT !.responsive = Some({"sm"})],
      [DefaultProps EXCEPT !.width = Num(2), !.height = Num(1)],
      [DefaultProps EXCEPT !.fitTo = Some("height"), !.overflow = TRUE] }

\* The sizes of the container (any) and of its parent (square, not empty).
LifeSizes == LifeDims \X LifeDims
LifeParents == {<<k, k>> : k \in 1..MaxLifeDim}

Init ==
    /\ window \in [defined : {TRUE}, innerWidth : LifeWidths, innerHeight : LifeHeights,
                   listeners : {0}]
    /\ mounted = FALSE
    /\ props = DefaultProps
    /\ responsiveView = FALSE
    /\ breakpointView = FALSE
    /\ fit = FitUnmounted
    /\ dom \in {DomInit(c[1], c[2]) : c \in LifeParents}
    /\ lastOp = "init"

Next ==
    \/ Mount(LifeProps, LifeSizes)
    \/ PropChange(LifeProps, LifeSizes)
    \/ ViewportResize(LifeWidths, LifeHeights, LifeSizes)
    \/ Unmount
    \/ Effect
    \/ ContainerResize(LifeSizes)
    \/ ParentResize(LifeParents)
    \/ Render

Spec == Init /\ [][Next]_vars

(***************************************************************************)
(* SpecGate: the visibility gate alone, over the viewport sizes around     *)
(* every threshold; the engine it mounts is left as mounted.               *)
(***************************************************************************)
GateWidths == {SmMax, SmMax + 1, MdMax, MdMax + 1, LgMax, LgMax + 1,
               XlMax, XlMax + 1, Xxl, Xxl + 1}
GateHeights == {SmMax - 1, SmMax, MdMax, MdMax + 1}

Range(lo, hi) == Some([min |-> lo, max |-> hi])

GateResponsives ==
    {Null, Some({}), Some({"sm", "lg"}), Some(Tiers)} \union {Some({t}) : t \in Tiers}

GateBreakpoints ==
    { Null,
      Some([width |-> Null, height |-> Null]),
      Some([width |-> Range(Null, Num(LgMax)), height |-> Null]),
      Some([width |-> Range(Num(MdMax), Null), height |-> Null]),
      Some([width |-> Range(Num(MdMax), Num(LgMax)), height |-> Null]),
      Some([width |-> Null, height |-> Range(Num(SmMax), Num(MdMax))]),
      Some([width |-> Range(Null, Num(LgMax)), height |-> Range(Num(SmMax), Null)]),
      Some([width |-> Range(Num(MdMax), Null), height |-> Range(Null, Num(MdMax))]) }

GateProps ==
    {[DefaultProps EXCEPT !.responsive = r, !.breakpoint = b] :
        r \in GateResponsives, b \in GateBreakpoints}

GateSizes == {<<1, 1>>}

InitGate ==
    /\ window \in [defined : BOOLEAN, innerWidth : GateWidths, innerHeight : GateHeights,
                   listeners : {0}]
    /\ mounted = FALSE
    /\ props = DefaultProps
    /\ responsiveView = FALSE
    /\ breakpointView = FALSE
    /\ fit = FitUnmounted
    /\ dom = DomInit(1, 1)
    /\ lastOp = "init"

NextGate ==
    \/ Mount(GateProps, GateSizes)
    \/ PropChange(GateProps, GateSizes)
    \/ ViewportResize(GateWidths, GateHeights, GateSizes)
    \/ Unmount

SpecGate == InitGate /\ [][NextGate]_vars

(***************************************************************************)
(* SpecFit: the fit computation as a function of its inputs.  A            *)
(* FlexyFitInternal rendered on its own, with its original size captured,  *)
(* runs resize() on every original size, container size and parent size.   *)
(***************************************************************************)
FitProps ==
    {[DefaultInternalProps EXCEPT !.fitTo = a, !.overflow = v, !.flex = x] :
        a \in {Null, Some("width"), Some("height")}, v \in BOOLEAN, x \in BOOLEAN}

InitFit ==
    /\ window = [defined |-> TRUE, innerWidth |-> SmMax, innerHeight |-> SmMax,
                 listeners |-> 0]
    /\ mounted = FALSE
    /\ props = DefaultProps
    /\ responsiveView = FALSE
    /\ breakpointView = FALSE
    /\ \E ip \in FitProps, W \in 1..MaxDim, H \in 1..MaxDim,
          cw \in Dims, ch \in Dims, pw \in Dims, ph \in Dims :
         /\ dom = [DomMounted(DomInit(pw, ph), cw, ch) EXCEPT !.flexShrink = "0"]
         /\ fit = [FitMounted(ip) EXCEPT
                     !.initialWidth = Num(W), !.initialHeight = Num(H),
                     !.fullParentWidth = Num(pw), !.fullParentHeight = Num(ph),
                     !.parentObserved = TRUE]
    /\ lastOp = "init"

NextFit ==
    \/ Effect
    \/ ContainerResize({<<dom.clientWidth, dom.clientHeight>>})

SpecFit == InitFit /\ [][NextFit]_vars

(***************************************************************************)
(* SpecBox: a FlexyFitInternal rendered on its own from its first render,  *)
(* with ratio sync or pixel mode, in a parent that may be empty.           *)
(***************************************************************************)
BoxProps ==
    {[DefaultInternalProps EXCEPT !.fitTo = a, !.overflow = v, !.flex = TRUE] :
        a \in {Some("width"), Some("height")}, v \in BOOLEAN}
    \union {[DefaultInternalProps EXCEPT !.px = TRUE]}

\* The container is unmeasured, or as wide as any size and 1 high.
BoxSizes == {<<0, 0>>} \union {<<k, 1>> : k \in 1..MaxLifeDim}

\* The parent is 1 high and as wide as any size, or empty in one dimension.
BoxParents == {<<0, 1>>, <<1, 0>>} \union {<<k, 1>> : k \in 1..MaxLifeDim}

InitBox ==
    /\ window = [defined |-> TRUE, innerWidth |-> SmMax, innerHeight |-> SmMax,
                 listeners |-> 0]
    /\ mounted = FALSE
    /\ props = DefaultProps
    /\ responsiveView = FALSE
    /\ breakpointView = FALSE
    /\ \E ip \in BoxProps, c \in BoxSizes, q \in BoxParents :
         /\ dom = DomMounted(DomInit(q[1], q[2]), c[1], c[2])
         /\ fit = FitMounted(ip)
    /\ lastOp = "init"

NextBox ==
    \/ Effect
    \/ ContainerResize(BoxSizes)
    \/ ParentResize(BoxParents)
    \/ Render

SpecBox == InitBox /\ [][NextBox]_vars

(***************************************************************************)
(* SpecRef: SpecBox, and the container reference going away while          *)
(* callbacks of the last render can still be called.                       *)
(***************************************************************************)
NextRef ==
    \/ NextBox
    \/ Detach
    \/ StaleResize
    \/ StaleParentResize
    \/ StaleKeepSyncRatio

SpecRef == InitBox /\ [][NextRef]_vars

(***************************************************************************)
(* The claims.                                                             *)
(***************************************************************************)
NoTierSet == props.responsive = Null \/ Val(props.responsive) = {}
GateVisible == Visible(CurrentView) /\ fit.mounted

\* The four bound checks of a breakpoint spec b at viewport (w, h), as stated.
BoundOk(range, v, isMax) ==
    \/ range = Null
    \/ LET bound == IF isMax THEN Val(range).max ELSE Val(range).min IN
         \/ bound = Null
         \/ IF isMax THEN v * bound[2] <= bound[1] ELSE v * bound[2] >= bound[1]

InRange(b, w, h) ==
    /\ BoundOk(b.width, w, TRUE) /\ BoundOk(b.width, w, FALSE)
    /\ BoundOk(b.height, h, TRUE) /\ BoundOk(b.height, h, FALSE)

\* The tier of a viewport width, as stated.
TierOf(w) ==
    IF w <= 640 THEN "sm"
    ELSE IF w <= 768 THEN "md"
    ELSE IF w <= 1024 THEN "lg"
    ELSE IF w <= 1280 THEN "xl"
    ELSE "2xl"

\* C1: mounted with a breakpoint spec and no tier set, after the mount check
\* the gate is visible iff none of the four bound checks is violated.
C1_MountVisibleIffInRange ==
    (mounted /\ lastOp = "mount" /\ window.defined /\ NoTierSet /\ props.breakpoint # Null)
    => (GateVisible <=> InRange(Val(props.breakpoint), window.innerWidth, window.innerHeight))

C3_ResizeVisibleIffInRange ==
    (mounted /\ lastOp = "viewportResize" /\ window.defined /\ NoTierSet
       /\ props.breakpoint # Null)
    => (GateVisible <=> InRange(Val(props.breakpoint), window.innerWidth, window.innerHeight))

\* A fit computation has just run past its early returns.
FitDone == fit.mounted /\ lastOp \in {"effect", "containerResize"} /\ Resolved(fit)

\* The inputs of the fit computation (whole numbers in every specification here).
InW == width(fit)[1]
InH == height(fit)[1]
InCw == dom.clientWidth
InCh == dom.clientHeight
InPw == dom.parentClientWidth
InPh == dom.parentClientHeight

\* The style's scale factor is the fraction n/d.
ScaleIs(n, d) ==
    /\ dom.transform # Null
    /\ dom.transform[2] # 0
    /\ dom.transform[1] * d = n * dom.transform[2]

\* C4: for fitTo = width, every fit computation sets the scale factor to ch/H
\* if overflow is disallowed and H*(cw/W) > ph, and to cw/W otherwise.
C4_WidthFitScale ==
    (FitDone /\ fitTo(fit) = "width")
    => IF ~fit.props.overflow /\ InH * InCw > InPh * InW
       THEN ScaleIs(InCh, InH)
       ELSE ScaleIs(InCw, InW)

C4_Witness ==
    /\ FitDone /\ fitTo(fit) = "width" /\ ~fit.props.overflow
    /\ InW = 2 /\ InH = 1 /\ InCw = 4 /\ InCh = 3 /\ InPh = 1
    /\ dom.transform = Num(3)

\* C5: given fitTo = height, FlexyFit's engine runs the height-driven branch:
\* the scale factor is cw/W if overflow is disallowed and W*(ch/H) > pw, and
\* ch/H otherwise.
C5_PublicFitToHeight ==
    (mounted /\ FitDone /\ props.fitTo = Some("height"))
    => IF ~props.overflow /\ InW * InCh > InPw * InH
       THEN ScaleIs(InCw, InW)
       ELSE ScaleIs(InCh, InH)

\* The scaled original size fits inside the parent box.
ScaledFits ==
    /\ dom.transform # Null
    /\ dom.transform[1] * InW <= InPw * dom.transform[2]
    /\ dom.transform[1] * InH <= InPh * dom.transform[2]

\* C6 as stated: with overflow disallowed, the scale factor of every fit
\* computation makes the scaled original size fit inside the parent box, for
\* all measurements.
C6_ScaledFitsParent == (FitDone /\ ~fit.props.overflow) => ScaledFits

\* C6: with overflow disallowed and a container measured no larger than its
\* parent's client box, the scale factor of every fit computation makes the
\* scaled original size fit inside the parent box.
C6_ScaledFitsParentFromInside ==
    (FitDone /\ ~fit.props.overflow /\ InCw <= InPw /\ InCh <= InPh) => ScaledFits

C6_Witness ==
    /\ FitDone /\ ~fit.props.overflow /\ fitTo(fit) = "width"
    /\ InW = 1 /\ InH = 2 /\ InCw = 2 /\ InCh = 2 /\ InPw = 2 /\ InPh = 2
    /\ dom.transform = Num(1)

\* The original size as last captured by resize(): queued, or already rendered.
OriginalSize ==
    <<Coalesce(fit.pending.initialWidth, fit.initialWidth),
      Coalesce(fit.pending.initialHeight, fit.initialHeight)>>

\* C7: within one mount the original size, once captured, never changes.
C7_OriginalSizeFrozen ==
    [][(fit.mounted /\ fit'.mounted /\ OriginalSize[1] # Null /\ OriginalSize[2] # Null)
         => OriginalSize' = OriginalSize]_vars

Revealed == dom.visibility # "hidden" /\ dom.opacity # "0"

\* C8: once the render that carries the captured original size is done, the
\* container is revealed.
C8_RevealedOnceRendered ==
    (fit.mounted /\ lastOp = "render" /\ fit.initialWidth # Null /\ fit.initialHeight # Null)
    => Revealed

\* C9: whenever the container of a mounted engine is revealed, the original
\* size and the effective size are non-null.
C9_RevealedOnlyResolved ==
    (fit.mounted /\ (dom.visibility # "hidden" \/ dom.opacity # "0"))
    => /\ fit.initialWidth # Null /\ fit.initialHeight # Null
       /\ width(fit) # Null /\ height(fit) # Null

C9_Witness ==
    /\ fit.mounted /\ Revealed /\ lastOp = "containerResize"
    /\ fit.props.width # Null /\ fit.initialWidth # Null

\* C10: within one mount, a revealed container stays revealed.
C10_NeverSuppressedAgain ==
    [][(fit.mounted /\ fit'.mounted /\ Revealed) => Revealed']_vars

C10_Witness ==
    /\ fit.mounted /\ Revealed /\ lastOp \in {"render", "propChange", "parentResize"}

\* The result of the scale algorithm for the current measurements.
FitNow ==
    Fit(fitTo(fit), fit.props.overflow, width(fit), height(fit),
        Num(InCw), Num(InCh), Num(InPw), Num(InPh))

\* C11: once a parent resize callback has been processed, the applied scale
\* factor (of a container that has been fitted before) is the scale
\* algorithm's output for the current container size and the current parent
\* client size.
C11_ParentResizeRecomputes ==
    (fit.mounted /\ fit.parentObserved /\ lastOp = "parentResize" /\ Resolved(fit)
       /\ dom.transform # Null)
    => dom.transform = FitNow.scale

\* C12: a fit computation with ratio sync, original ratio r = W/H and parent
\* ratio p = pw/ph (parent not empty): if r # p the first child's explicit size
\* becomes (W, H*(r/p)) = (W, W*ph/pw) for axis width and (W*(p/r), H) =
\* (H*pw/ph, H) for axis height; if r = p it is left as it was.
C12_RatioSync ==
    [][(FitDone' /\ fit'.props.flex /\ InPw' > 0 /\ InPh' > 0)
         => IF InW' * InPh' = InPw' * InH'
            THEN dom'.childWidth = dom.childWidth /\ dom'.childHeight = dom.childHeight
            ELSE IF FitNow'.sync = "width"
            THEN dom'.childWidth = Num(InW') /\ dom'.childHeight = Norm(InW' * InPh', InPw')
            ELSE dom'.childWidth = Norm(InH' * InPw', InPh') /\ dom'.childHeight = Num(InH')]_vars

\* Original ratio 1:1, parent ratio 2:1, axis width: the child's height is H/2.
C12_Witness ==
    /\ FitDone /\ fit.props.flex /\ FitNow.sync = "width"
    /\ InW = 1 /\ InH = 1 /\ InPw = 2 /\ InPh = 1
    /\ dom.childWidth = Num(1) /\ dom.childHeight = <<1, 2>>

\* C13: with explicit width and height given, every resize() lifts the
\* suppression and sets the scale factor computed with (W, H) = the given
\* size, whether or not a nonzero container measurement has been captured.
C13_OverridesNeedNoMeasurement ==
    (fit.mounted /\ lastOp \in {"effect", "containerResize"}
       /\ fit.props.width # Null /\ fit.props.height # Null)
    => (Revealed /\ dom.transform = FitNow.scale)

\* C14: with neither a tier set (absent or empty) nor a breakpoint spec, the
\* gate is visible once the mount effect has run, and after every viewport
\* resize event and every prop change that leaves both absent, at every
\* viewport size.
C14_VisibleWithoutConditions ==
    (mounted /\ NoTierSet /\ props.breakpoint = Null) => GateVisible

C14_Witness ==
    /\ mounted /\ lastOp = "viewportResize" /\ window.innerWidth = Xxl + 1
    /\ props.responsive = Some({}) /\ props.breakpoint = Null
    /\ GateVisible

\* The view of an instance freshly mounted with the current props at the
\* current viewport.
FreshView == GateEffect(View(FALSE, FALSE), props, window)

\* C15: after any sequence of prop changes and viewport resize events, the
\* gate's visibility is the visibility of an instance freshly mounted with the
\* current props at the current viewport.
C15_VisibleAsFreshMount ==
    (mounted /\ window.defined /\ lastOp \in {"propChange", "viewportResize"})
    => (GateVisible <=> Visible(FreshView))

\* The scale factor the scale algorithm gives for the other fit axis.
OtherAxisScale ==
    Fit(IF fitTo(fit) = "width" THEN "height" ELSE "width", fit.props.overflow,
        width(fit), height(fit), Num(InCw), Num(InCh), Num(InPw), Num(InPh)).scale

\* C16: with overflow disallowed and the original size and all measurements
\* positive, the scale factor set with fitTo = width is the scale factor set
\* with fitTo = height.
C16_FitToInsignificant ==
    (FitDone /\ ~fit.props.overflow /\ InCw > 0 /\ InCh > 0 /\ InPw > 0 /\ InPh > 0)
    => dom.transform = OtherAxisScale

\* The original size is captured and every state update is rendered; the
\* parent size in the state is then the most recent parent measurement.
CapturedAndRendered ==
    /\ fit.mounted /\ fit.pending = NoPending
    /\ fit.initialWidth # Null /\ fit.initialHeight # Null

\* C17 as stated: in pixel mode, once the original size is captured, the
\* container's styled width and height are the width and height of the most
\* recent parent measurement, for every measured value; in non-pixel mode they
\* are 100% and 100%.
C17_PinnedToParent ==
    CapturedAndRendered
    => StyleSize(fit) = IF fit.props.px
                        THEN [unit |-> "px", width |-> fit.fullParentWidth,
                              height |-> fit.fullParentHeight]
                        ELSE [unit |-> "%", width |-> Num(100), height |-> Num(100)]

\* C17: in pixel mode, once the original size is captured, the container's
\* styled width and height are the width and height of the most recent parent
\* measurement (there is one) where that value is not 0, and are not set where
\* it is 0; in non-pixel mode they are 100% and 100%.
C17_PinnedToNonzeroParent ==
    CapturedAndRendered
    => /\ fit.props.px => (fit.fullParentWidth # Null /\ fit.fullParentHeight # Null)
       /\ StyleSize(fit) =
                        IF fit.props.px
                        THEN [unit |-> "px",
                              width |-> IF fit.fullParentWidth = Num(0) THEN Null
                                        ELSE fit.fullParentWidth,
                              height |-> IF fit.fullParentHeight = Num(0) THEN Null
                                         ELSE fit.fullParentHeight]
                        ELSE [unit |-> "%", width |-> Num(100), height |-> Num(100)]

\* Pixel mode after a parent resize callback, rendered: the parent is 2 x 1.
C17_Witness ==
    /\ CapturedAndRendered /\ fit.props.px /\ fit.parentObserved /\ lastOp = "render"
    /\ InPw = 2 /\ InPh = 1
    /\ StyleSize(fit) = [unit |-> "px", width |-> Num(2), height |-> Num(1)]

\* C18: of two consecutive resize() calls with the same original size,
\* container and parent measurements and configuration, the second leaves the
\* scale factor and the child's explicit size as the first set them.
C18_FitIdempotent ==
    [][(FitDone /\ FitDone' /\ fit'.props = fit.props
          /\ InW' = InW /\ InH' = InH /\ InCw' = InCw /\ InCh' = InCh
          /\ InPw' = InPw /\ InPh' = InPh)
         => /\ dom'.transform = dom.transform
            /\ dom'.childWidth = dom.childWidth
            /\ dom'.childHeight = dom.childHeight]_vars

\* The effect has run resize(), and the container's observer has run it again
\* on the same measurements, with ratio sync.
C18_Witness ==
    /\ FitDone /\ lastOp = "containerResize" /\ ~fit.effectPending /\ fit.props.flex
    /\ InW = 2 /\ InH = 1 /\ InCw = 3 /\ InCh = 1 /\ InPw = 4 /\ InPh = 1
    /\ dom.transform = <<3, 2>>
    /\ dom.childWidth = Num(2) /\ dom.childHeight = <<1, 2>>

\* The engine as its first render leaves it: nothing measured, no state update
\* queued, the container suppressed and without transform.
Unmeasured ==
    /\ fit.mounted
    /\ fit.initialWidth = Null /\ fit.initialHeight = Null
    /\ fit.fullParentWidth = Null /\ fit.fullParentHeight = Null
    /\ fit.pending = NoPending
    /\ dom.visibility = "hidden" /\ dom.opacity = "0" /\ dom.transform = Null
    /\ dom.childWidth = Null /\ dom.childHeight = Null

\* C19: the fit engine is mounted iff the gate is visible, and each time the
\* gate goes from not visible to visible the engine starts Unmeasured.
C19_MountedIffVisible ==
    [][/\ fit'.mounted <=> (mounted' /\ Visible(CurrentView'))
       /\ (~Visible(CurrentView) /\ Visible(CurrentView')) => Unmeasured']_vars

\* A viewport resize has made the gate visible again, after an earlier engine
\* of the same FlexyFit was fitted in a parent of another size.
C19_Witness ==
    /\ mounted /\ lastOp = "viewportResize" /\ Visible(CurrentView)
    /\ props.responsive = Some({"sm"}) /\ window.innerWidth = SmMax
    /\ Unmeasured /\ fit.effectPending /\ ~fit.parentObserved

\* The tiers whose singleton tier set makes a gate without breakpoint spec
\* visible at the current viewport.
VisibleTiers ==
    {t \in Tiers :
        Visible(GateEffect(View(FALSE, FALSE),
                           [props EXCEPT !.responsive = Some({t}), !.breakpoint = Null],
                           window))}

EffectWithoutWindow == ~window.defined /\ mounted' /\ lastOp' \in {"mount", "propChange"}

TierSetGiven(p) == p.responsive # Null /\ Val(p.responsive) # {}

\* C21 as stated: without a window and with a non-empty tier set or a
\* breakpoint spec, the effect leaves both visibility flags as they were and
\* registers no listener.
C21_ChecksSkipWithoutWindow ==
    [][(EffectWithoutWindow /\ (TierSetGiven(props') \/ props'.breakpoint # Null))
         => /\ responsiveView' = responsiveView
            /\ breakpointView' = breakpointView
            /\ window'.listeners = 0]_vars

\* C21: without a window, checkResponsive given a non-empty tier set and
\* checkBreakpoint given a breakpoint spec each leave both visibility flags as
\* they were (so responsiveView is kept with a tier set, breakpointView with a
\* breakpoint spec), and no listener is registered.
C21_ConfiguredCheckSkipsWithoutWindow ==
    [][EffectWithoutWindow
         => /\ TierSetGiven(props') =>
                 /\ checkResponsive(CurrentView, props', window) = CurrentView
                 /\ responsiveView' = responsiveView
            /\ props'.breakpoint # Null =>
                 /\ checkBreakpoint(CurrentView, props', window) = CurrentView
                 /\ breakpointView' = breakpointView
            /\ window'.listeners = 0]_vars

\* New props with a tier set and a breakpoint spec, where there is no window:
\* the gate is still visible as it was with the props before.
C21_Witness ==
    /\ ~window.defined /\ mounted /\ lastOp = "propChange" /\ window.listeners = 0
    /\ props.responsive = Some({"sm"}) /\ props.breakpoint # Null
    /\ window.innerWidth = Xxl + 1
    /\ responsiveView /\ breakpointView

\* C22: with the container reference missing, resize(), parentResize() and
\* keepSyncRatio() leave the original size, the parent size, the transform, the
\* suppression and the child's explicit size as they were.
C22_NoEffectWithoutRef ==
    [][(~fit.mounted
          /\ lastOp' \in {"staleResize", "staleParentResize", "staleKeepSyncRatio"})
         => fit' = fit /\ dom' = dom]_vars

\* resize() has been called without the reference where, with it, it would
\* have set another scale factor and captured a parent size.
C22_Witness ==
    /\ ~fit.mounted /\ lastOp = "staleResize" /\ Resolved(fit) /\ fit.props.flex
    /\ dom.transform # Null /\ dom.transform # FitNow.scale
    /\ fit.pending = NoPending

\* C23: in every run of FlexyFit's effect, checkResponsive leaves
\* breakpointView as it was, and checkBreakpoint leaves responsiveView as
\* checkResponsive set it.
C23_ChecksOwnSeparateState ==
    [][(mounted' /\ lastOp' \in {"mount", "propChange"})
         => LET g == checkResponsive(CurrentView, props', window) IN
              /\ g.breakpointView = breakpointView
              /\ checkBreakpoint(g, props', window).responsiveView = g.responsiveView
              /\ responsiveView' = g.responsiveView]_vars

\* C24: a mounted FlexyFit has at most one viewport resize listener registered
\* (exactly one where there is a window, none where there is none), after any
\* sequence of prop changes, and none is registered once it is unmounted.
C24_ListenersPaired ==
    window.listeners = IF mounted /\ window.defined THEN 1 ELSE 0

C24_Witness ==
    /\ mounted /\ window.defined /\ lastOp = "propChange" /\ window.listeners = 1
    /\ props.responsive = Some({"sm"}) /\ props.breakpoint # Null

\* Two values of the original size: both null, or both a number other than 0.
BothNullOrNonzero(w, h) ==
    \/ w = Null /\ h = Null
    \/ w # Null /\ h # Null /\ w # Num(0) /\ h # Num(0)

\* C25: in every state of a mounted engine initialWidth and initialHeight,
\* rendered or queued, are both null or both nonzero; so without explicit width
\* and height the W and H that resize() divides by are never 0.
C25_OriginalSizeNonzero ==
    fit.mounted
    => /\ BothNullOrNonzero(fit.initialWidth, fit.initialHeight)
       /\ BothNullOrNonzero(fit.pending.initialWidth, fit.pending.initialHeight)
       /\ (Resolved(fit) /\ fit.props.width = Null /\ fit.props.height = Null)
            => (width(fit) # Num(0) /\ height(fit) # Num(0))

\* The container is measured 0 wide after its original size was captured: the
\* fit divides by the captured size.
C25_Witness ==
    /\ FitDone /\ fit.props.width = Null /\ fit.props.height = Null
    /\ fit.initialWidth = Num(1) /\ fit.initialHeight = Num(2)
    /\ InCw = 0 /\ InCh = 1 /\ dom.transform = Num(0)

\* The child's explicit size in the state, and the one a fit computation on
\* the same measurements gives a container that has not been fitted before.
ChildSize == <<dom.childWidth, dom.childHeight>>
FreshChildSize ==
    LET d == ApplyFit(fit, DomMounted(dom, InCw, InCh)) IN <<d.childWidth, d.childHeight>>

\* C26 as stated: with ratio sync, after every fit computation the child's
\* explicit size is the one any other history ending in the same original
\* size, measurements and axis gives, such as the history that starts there.
C26_ChildSizeHistoryFree ==
    (FitDone /\ fit.props.flex) => ChildSize = FreshChildSize

\* C26: the same, where the original size is positive, the parent is not empty
\* and the original ratio differs from the parent's ratio.
C26_ChildSizeHistoryFreeOffRatio ==
    (FitDone /\ fit.props.flex /\ InW > 0 /\ InH > 0 /\ InPw > 0 /\ InPh > 0
       /\ InW * InPh # InPw * InH)
    => ChildSize = FreshChildSize

\* After parent resize callbacks, original size 2 x 1 in a 1 x 1 parent.
C26_Witness ==
    /\ FitDone /\ fit.props.flex /\ fit.parentObserved /\ lastOp = "containerResize"
    /\ InW = 2 /\ InH = 1 /\ InPw = 1 /\ InPh = 1
    /\ ChildSize = <<Num(2), Num(2)>>

====
